---- MODULE Spec2Model ----
(***************************************************************************)
(* Inference driver of the FreGrad vocoder (src/inference.py): command     *)
(* line handling, checkpoint restore, the schedule builder (time-warp T),  *)
(* the reverse diffusion sampling loop and the saving of each example.     *)
(*                                                                         *)
(* Numbers.  A noise-schedule value is an exact rational <<num, den>>.     *)
(* Schedules that reach the schedule builder are drawn from betas whose    *)
(* alpha = 1 - beta is the square of a rational, so that every `** 0.5`    *)
(* the builder takes is exact and the builder is modelled in exact         *)
(* arithmetic (float rounding is not modelled).  An audio sample is a      *)
(* fixed-point number (Unit steps per 1.0) or one of the IEEE specials     *)
(* nan, +inf, -inf.  Every operation on the audio tensor is elementwise    *)
(* and the denoiser is arbitrary, so the tensor is modelled by one of its  *)
(* elements.  Indices are the code's 0-based indices.                      *)
(***************************************************************************)
EXTENDS Integers, Sequences, FiniteSets, TLC

\* ------------------------------------------------------------------ bounds
\* longest noise schedule drawn for params.noise_schedule
MaxLen == 3
\* fixed-point steps per 1.0 of an audio sample
Unit == 2
\* fixed-point steps per 1.0 of an inexact square root
Prec == 16
\* largest target_std drawn for an example
MaxStd == 2

\* ------------------------------------------------------- rational numbers
RECURSIVE Gcd(_, _)
Gcd(a, b) == IF b = 0 THEN a ELSE Gcd(b, a % b)

Abs(x) == IF x < 0 THEN -x ELSE x

\* the rational n/d in lowest terms, denominator positive
Norm(q) ==
    LET g == Gcd(Abs(q[1]), Abs(q[2]))
        sg == IF q[2] < 0 THEN -1 ELSE 1
    IN  <<sg * (q[1] \div g), sg * (q[2] \div g)>>

QInt(k) == <<k, 1>>
QAdd(a, b) == Norm(<<a[1] * b[2] + b[1] * a[2], a[2] * b[2]>>)
QSub(a, b) == Norm(<<a[1] * b[2] - b[1] * a[2], a[2] * b[2]>>)
QMul(a, b) == Norm(<<a[1] * b[1], a[2] * b[2]>>)
\* a / b; b is not zero
QDiv(a, b) == Norm(<<a[1] * b[2], a[2] * b[1]>>)
QLe(a, b) == a[1] * b[2] <= b[1] * a[2]
QLt(a, b) == a[1] * b[2] < b[1] * a[2]

\* floor of the square root of a natural number
RECURSIVE ISqrt(_)
ISqrt(k) ==
    IF k < 2 THEN k
    ELSE LET r == 2 * ISqrt(k \div 4)
         IN  IF (r + 1) * (r + 1) <= k THEN r + 1 ELSE r

IsSquare(k) == ISqrt(k) * ISqrt(k) = k

\* x ** 0.5 of a non-negative rational: exact when x is the square of a
\* rational, rounded down to a multiple of 1/Prec otherwise
Sqrt(x) ==
    LET q == Norm(x)
    IN  IF IsSquare(q[1]) /\ IsSquare(q[2])
        THEN <<ISqrt(q[1]), ISqrt(q[2])>>
        ELSE Norm(<<ISqrt(((q[1] * Prec) \div q[2]) * Prec), Prec>>)

\* element k (0-based) of a sequence
At(seq, k) == seq[k + 1]

\* np.cumprod of a sequence of rationals
RECURSIVE CumProdTo(_, _)
CumProdTo(seq, k) ==
    IF k = 0 THEN At(seq, 0) ELSE QMul(CumProdTo(seq, k - 1), At(seq, k))

cumprod(seq) == [k \in 1..Len(seq) |-> CumProdTo(seq, k - 1)]

\* 1 - x, elementwise
OneMinus(seq) == [k \in 1..Len(seq) |-> QSub(QInt(1), seq[k])]


\* ------------------------------------------------------------ audio samples
NaN == <<"nan", 0>>
PosInf == <<"inf", 0>>
NegInf == <<"-inf", 0>>
Fin(k) == <<"fin", k>>
IsFin(v) == v[1] = "fin"

\* -v
VNeg(v) ==
    IF IsFin(v) THEN Fin(-v[2])
    ELSE IF v = PosInf THEN NegInf
    ELSE IF v = NegInf THEN PosInf
    ELSE NaN

\* v + w in IEEE arithmetic: nan is absorbing and inf + -inf is nan
VAdd(v, w) ==
    IF v = NaN \/ w = NaN THEN NaN
    ELSE IF IsFin(v) /\ IsFin(w) THEN Fin(v[2] + w[2])
    ELSE IF IsFin(v) THEN w
    ELSE IF IsFin(w) THEN v
    ELSE IF v = w THEN v
    ELSE NaN

\* c * v for a positive finite coefficient c (a rational), rounded down to
\* the fixed-point grid
VScale(c, v) ==
    IF IsFin(v) THEN Fin((v[2] * c[1]) \div c[2]) ELSE v

\* mutant of Clamp: only the upper bound is enforced
ClampUpperOnly(v) ==
    IF v = NaN THEN NaN
    ELSE IF v = PosInf THEN Fin(Unit)
    ELSE IF v = NegInf THEN NegInf
    ELSE IF v[2] > Unit THEN Fin(Unit)
    ELSE v

\* torch.clamp(v, -1.0, 1.0) of one element: +inf and -inf are cut to the
\* bounds, nan is propagated
Clamp(v) ==
    IF v = NaN THEN NaN
    ELSE IF v = PosInf THEN Fin(Unit)
    ELSE IF v = NegInf THEN Fin(-Unit)
    ELSE IF v[2] > Unit THEN Fin(Unit)
    ELSE IF v[2] < -Unit THEN Fin(-Unit)
    ELSE v

\* ------------------------------------------------------------------ inputs
\* betas in (0,1) whose alpha = 1 - beta is a square: 1/4 and 1/9
Betas == {<<3, 4>>, <<8, 9>>}

\* the noise schedules of 1..MaxLen betas
Schedules == UNION {[1..k -> Betas] : k \in 1..MaxLen}

\* --fast_iter values given on the command line (<<>> is None)
FastIters == {<<>>, <<3>>, <<4>>}

\* the inference schedules params_saved may hold
SavedInference == {<<<<3, 4>>, <<8, 9>>>>}

\* checkpoint files of model_dir: <<>> is a missing file, <<k>> a file
\* whose state dict stores step k
CkptDirs == [step : {<<>>, <<1>>}, default : {<<>>, <<2>>}]

\* filelists: every example is the list of paths of features["filename"]
\* (one path: the loader yields one example at a time), a path the sequence
\* of its "/"-separated components
Datasets ==
    { << <<<<"a", "x.wav">>>> >>,
      << <<<<"a", "x.wav">>>>, <<<<"a", "y.wav">>>> >>,
      << <<<<"a", "x.wav">>>>, <<<<"b", "x.wav">>>> >> }

\* values torch.randn draws, in fixed-point steps
Randn == {-(Unit + 1), Unit + 1}

\* values the denoiser returns for an element
Eps == {Fin(0), Fin(2 * Unit), NaN, PosInf}

\* ------------------------------------------------------------------- state
VARIABLES
    pc,                      \* the place main has reached
    args,                    \* the parsed command line
    params,                  \* params_saved.params
    files,                   \* the checkpoint files of model_dir
    dataset_test,            \* the examples of the filelist
    fast_sampling,           \* line 259
    T_OVERRIDE,              \* <<>> is None
    loads,                   \* the torch.load calls made, in order
    weights,                 \* the file the model's weights came from
    step,                    \* the step restore_from_checkpoint returned
    sample_path,             \* the output directory
    training_noise_schedule,
    beta,
    T,                       \* the time-warp, a sequence of rationals
    s,                       \* the schedule builder's outer loop index
    i,                       \* examples taken from dataset_test
    n,                       \* the sampler's loop index
    audio,                   \* an element of the audio tensor
    target_std,
    calls,                   \* the n of every denoiser call for this example
    injections,              \* the n of every noise injection for this example
    clamped,                 \* sampler iterations completed for this example
    outdir,                  \* the files of sample_path: <<name, example>>
    error                    \* the exception that ended main, "" if none

vars == <<pc, args, params, files, dataset_test, fast_sampling, T_OVERRIDE,
          loads, weights, step, sample_path, training_noise_schedule, beta, T,
          s, i, n, audio, target_std, calls, injections, clamped, outdir,
          error>>

\* ------------------------------------------------- derived schedule arrays
talpha == OneMinus(training_noise_schedule)
talpha_cum == cumprod(talpha)
alpha == OneMinus(beta)
alpha_cum == cumprod(alpha)


\* ------------------------------------------------- command line (184-229)
\* np.linspace(1e-4, 0.05, k).tolist()
linspace(k) ==
    IF k = 1 THEN <<<<1, 10000>>>>
    ELSE [j \in 1..k |->
            QAdd(<<1, 10000>>, QMul(QInt(j - 1), <<499, 10000 * (k - 1)>>))]

\* NOISE_OVERRIDE for --fast_iter k
NOISE_OVERRIDE(k) ==
    IF k = 6 THEN
        SubSeq(params.noise_schedule, 1, 1)
            \o <<<<215, 10000>>, <<45, 1000>>, <<8, 100>>, <<2, 10>>, <<5, 10>>>>
    ELSE IF k = 3 THEN
        SubSeq(params.noise_schedule, 1, 1) \o <<<<1, 10>>, <<95, 100>>>>
    ELSE IF k = 2 THEN <<<<4, 100>>, <<95, 100>>>>
    ELSE IF k = 12 THEN
        <<<<1, 10000>>, <<5, 10000>>, <<8, 10000>>, <<1, 1000>>, <<5, 1000>>,
          <<8, 1000>>, <<1, 100>>, <<5, 100>>, <<8, 100>>, <<1, 10>>,
          <<2, 10>>, <<5, 10>>>>
    ELSE linspace(k)

Override ==
    /\ pc = "override"
    /\ IF args.fast
       THEN IF args.fast_iter # <<>>
            THEN /\ params' = [params EXCEPT !.inference_noise_schedule =
                                    NOISE_OVERRIDE(args.fast_iter[1])]
                 /\ T_OVERRIDE' = args.fast_iter
            ELSE /\ T_OVERRIDE' = <<Len(params.inference_noise_schedule)>>
                 /\ UNCHANGED params
       ELSE /\ T_OVERRIDE' = args.fast_iter
            /\ UNCHANGED params
    /\ pc' = "restore"
    /\ UNCHANGED <<args, files, dataset_test, fast_sampling, loads, weights,
                   step, sample_path, training_noise_schedule, beta, T, s, i,
                   n, audio, target_std, calls, injections, clamped, outdir,
                   error>>

\* ------------------------------------------- restore_from_checkpoint (69-86)
\* mutant of Fallback: a missing weights.pt is answered by another attempt
\* at the step-specific file
FallbackRetry ==
    /\ IF files.default # <<>>
       THEN /\ loads' = <<"weights-step.pt", "weights.pt">>
            /\ weights' = "weights.pt"
            /\ step' = files.default
            /\ pc' = "sample_path"
            /\ UNCHANGED error
       ELSE /\ loads' = <<"weights-step.pt", "weights.pt", "weights-step.pt">>
            /\ error' = "FileNotFoundError"
            /\ pc' = "crash"
            /\ UNCHANGED <<weights, step>>

\* the except branch: one load of weights.pt, whose failure propagates
Fallback ==
    /\ loads' = <<"weights-step.pt", "weights.pt">>
    /\ IF files.default # <<>>
       THEN /\ weights' = "weights.pt"
            /\ step' = files.default
            /\ pc' = "sample_path"
            /\ UNCHANGED error
       ELSE /\ error' = "FileNotFoundError"
            /\ pc' = "crash"
            /\ UNCHANGED <<weights, step>>

restore_from_checkpoint ==
    /\ pc = "restore"
    /\ IF files.step # <<>>
       THEN /\ loads' = <<"weights-step.pt">>
            /\ weights' = "weights-step.pt"
            /\ step' = files.step
            /\ pc' = "sample_path"
            /\ UNCHANGED error
       ELSE Fallback
    /\ UNCHANGED <<args, params, files, dataset_test, fast_sampling,
                   T_OVERRIDE, sample_path, training_noise_schedule, beta, T,
                   s, i, n, audio, target_std, calls, injections, clamped,
                   outdir>>

\* ------------------------------------------------- output directory (238-252)
MakeSamplePath ==
    /\ pc = "sample_path"
    /\ sample_path' =
           IF args.fast
           THEN [dir |-> "hyak_sample_fast", step |-> step,
                 fast_iter |-> T_OVERRIDE]
           ELSE [dir |-> "sample_slow", step |-> step, fast_iter |-> <<>>]
    /\ outdir' = {}
    /\ pc' = "schedules"
    /\ UNCHANGED <<args, params, files, dataset_test, fast_sampling,
                   T_OVERRIDE, loads, weights, step, training_noise_schedule,
                   beta, T, s, i, n, audio, target_std, calls, injections,
                   clamped, error>>

\* ------------------------------------------------------ schedules (259-274)
SetupSchedules ==
    /\ pc = "schedules"
    /\ training_noise_schedule' = params.noise_schedule
    /\ beta' = IF fast_sampling THEN params.inference_noise_schedule
               ELSE params.noise_schedule
    /\ T' = <<>>
    /\ s' = 0
    /\ pc' = "build"
    /\ UNCHANGED <<args, params, files, dataset_test, fast_sampling,
                   T_OVERRIDE, loads, weights, step, sample_path, i, n, audio,
                   target_std, calls, injections, clamped, outdir, error>>


\* -------------------------------------------------- schedule builder (274-283)
\* line 277: training bracket t holds inference step k
Bracket(t, k) ==
    /\ QLe(At(talpha_cum, t + 1), At(alpha_cum, k))
    /\ QLe(At(alpha_cum, k), At(talpha_cum, t))

\* mutant of FirstBracket: the scan keeps the last bracket that holds
LastBracket(k) ==
    LET ts == {t \in 0..(Len(training_noise_schedule) - 2) : Bracket(t, k)}
    IN  IF ts = {} THEN <<>>
        ELSE <<CHOOSE t \in ts : \A u \in ts : u <= t>>

\* mutant of FirstBracket: a step without a bracket falls back to bracket 0
FirstBracketOrZero(k) ==
    LET ts == {t \in 0..(Len(training_noise_schedule) - 2) : Bracket(t, k)}
    IN  IF ts = {}
        THEN IF Len(training_noise_schedule) >= 2 THEN <<0>> ELSE <<>>
        ELSE <<CHOOSE t \in ts : \A u \in ts : t <= u>>

\* the t of range(len(training_noise_schedule) - 1) at which the inner loop
\* breaks, as <<t>>; <<>> when the loop ends without a break
FirstBracket(k) ==
    LET ts == {t \in 0..(Len(training_noise_schedule) - 2) : Bracket(t, k)}
    IN  IF ts = {} THEN <<>>
        ELSE <<CHOOSE t \in ts : \A u \in ts : t <= u>>

\* mutant of twiddle: the offset is measured from the bracket's far end
twiddleFromNext(t, k) ==
    QDiv(QSub(Sqrt(At(alpha_cum, k)), Sqrt(At(talpha_cum, t + 1))),
         QSub(Sqrt(At(talpha_cum, t)), Sqrt(At(talpha_cum, t + 1))))

\* lines 278-280
twiddle(t, k) ==
    QDiv(QSub(Sqrt(At(talpha_cum, t)), Sqrt(At(alpha_cum, k))),
         QSub(Sqrt(At(talpha_cum, t)), Sqrt(At(talpha_cum, t + 1))))

\* mutant of TimeIndex: the bracket's upper index is the base
TimeIndexFromNext(t, k) == QAdd(QInt(t + 1), twiddle(t, k))

\* line 281: the value appended to T
TimeIndex(t, k) == QAdd(QInt(t), twiddle(t, k))

\* one iteration of the outer loop: the inner scan for inference step s
BuildStep ==
    /\ pc = "build"
    /\ s < Len(beta)
    /\ LET b == FirstBracket(s)
       IN  T' = IF b = <<>> THEN T
                ELSE Append(T, TimeIndex(b[1], s))
    /\ s' = s + 1
    /\ UNCHANGED <<pc, args, params, files, dataset_test, fast_sampling,
                   T_OVERRIDE, loads, weights, step, sample_path,
                   training_noise_schedule, beta, i, n, audio, target_std,
                   calls, injections, clamped, outdir, error>>

\* the outer loop ends; the loop over the examples starts
BuildDone ==
    /\ pc = "build"
    /\ s = Len(beta)
    /\ i' = 0
    /\ pc' = "examples"
    /\ UNCHANGED <<args, params, files, dataset_test, fast_sampling,
                   T_OVERRIDE, loads, weights, step, sample_path,
                   training_noise_schedule, beta, T, s, n, audio, target_std,
                   calls, injections, clamped, outdir, error>>

\* --------------------------------------------------- examples (285-320, 358)
\* the next example's features are read and its initial noise is drawn
LoadExample ==
    /\ pc = "examples"
    /\ i < Len(dataset_test)
    /\ \E std \in 1..MaxStd, z \in Randn :
          /\ target_std' = std
          /\ audio' = Fin(z * std)
    /\ n' = Len(alpha) - 1
    /\ calls' = <<>>
    /\ injections' = <<>>
    /\ clamped' = 0
    /\ pc' = IF Len(alpha) = 0 THEN "save" ELSE "sample"
    /\ UNCHANGED <<args, params, files, dataset_test, fast_sampling,
                   T_OVERRIDE, loads, weights, step, sample_path,
                   training_noise_schedule, beta, T, s, i, outdir, error>>

Finish ==
    /\ pc = "examples"
    /\ i = Len(dataset_test)
    /\ pc' = "done"
    /\ UNCHANGED <<args, params, files, dataset_test, fast_sampling,
                   T_OVERRIDE, loads, weights, step, sample_path,
                   training_noise_schedule, beta, T, s, i, n, audio,
                   target_std, calls, injections, clamped, outdir, error>>

\* ------------------------------------------------------- sampler (321-338)
\* line 322
c1 == QDiv(QInt(1), Sqrt(At(alpha, n)))
\* line 323
c2 == QDiv(At(beta, n), Sqrt(QSub(QInt(1), At(alpha_cum, n))))
\* lines 334-336
sigma ==
    Sqrt(QMul(QDiv(QSub(QInt(1), At(alpha_cum, n - 1)),
                   QSub(QInt(1), At(alpha_cum, n))),
              At(beta, n)))

\* lines 324-330 for one element, the denoiser having returned eps
Denoise(k1, k2, a, eps) == VScale(k1, VAdd(a, VNeg(VScale(k2, eps))))

\* lines 333-337 for one element, torch.randn_like having drawn z
Inject(sg, a, z) == VAdd(a, VScale(sg, Fin(z * target_std)))

\* one iteration of the loop over n.  T[n] is evaluated for the denoiser's
\* argument list, so an index out of T's range raises before the call.
SamplerStep ==
    /\ pc = "sample"
    /\ IF n >= Len(T)
       THEN /\ error' = "IndexError"
            /\ pc' = "crash"
            /\ UNCHANGED <<n, audio, calls, injections, clamped>>
       ELSE /\ LET k1 == c1
                    k2 == c2
                    sg == sigma
               IN  \E eps \in Eps :
                      IF n > 0
                      THEN \E z \in Randn :
                              audio' = Clamp(Inject(sg,
                                           Denoise(k1, k2, audio, eps), z))
                      ELSE audio' = Clamp(Denoise(k1, k2, audio, eps))
            /\ calls' = Append(calls, n)
            /\ injections' = IF n > 0 THEN Append(injections, n)
                             ELSE injections
            /\ clamped' = clamped + 1
            /\ n' = n - 1
            /\ pc' = IF n = 0 THEN "save" ELSE "sample"
            /\ UNCHANGED error
    /\ UNCHANGED <<args, params, files, dataset_test, fast_sampling,
                   T_OVERRIDE, loads, weights, step, sample_path,
                   training_noise_schedule, beta, T, s, i, target_std, outdir>>

\* --------------------------------------------------------- saving (341-357)
\* features["filename"][0].split("/")[-1]
sample_name == LET path == At(At(dataset_test, i), 0) IN path[Len(path)]

\* torchaudio.save creates the file or replaces the file of that name
Save ==
    /\ pc = "save"
    /\ outdir' = {f \in outdir : f[1] # sample_name} \cup {<<sample_name, i>>}
    /\ i' = i + 1
    /\ pc' = "examples"
    /\ UNCHANGED <<args, params, files, dataset_test, fast_sampling,
                   T_OVERRIDE, loads, weights, step, sample_path,
                   training_noise_schedule, beta, T, s, n, audio, target_std,
                   calls, injections, clamped, error>>

\* ----------------------------------------------------------- specifications
NoAudio == Fin(0)

\* main as the command line starts it: fast_sampling is the constant of
\* line 259
Init ==
    /\ pc = "override"
    /\ args \in [fast : BOOLEAN, fast_iter : FastIters]
    /\ params \in [noise_schedule : Schedules,
                   inference_noise_schedule : SavedInference]
    /\ files \in CkptDirs
    /\ dataset_test \in Datasets
    /\ fast_sampling = FALSE
    /\ T_OVERRIDE = <<>>
    /\ loads = <<>>
    /\ weights = "none"
    /\ step = <<>>
    /\ sample_path = [dir |-> "", step |-> <<>>, fast_iter |-> <<>>]
    /\ training_noise_schedule = <<>>
    /\ beta = <<>>
    /\ T = <<>>
    /\ s = 0
    /\ i = 0
    /\ n = 0
    /\ audio = NoAudio
    /\ target_std = 1
    /\ calls = <<>>
    /\ injections = <<>>
    /\ clamped = 0
    /\ outdir = {}
    /\ error = ""

Next ==
    \/ Override
    \/ restore_from_checkpoint
    \/ MakeSamplePath
    \/ SetupSchedules
    \/ BuildStep
    \/ BuildDone
    \/ LoadExample
    \/ Finish
    \/ SamplerStep
    \/ Save

Spec == Init /\ [][Next]_vars

\* the schedule builder and the sampler on every pair of a training and an
\* inference schedule: lines 260-338 with fast_sampling true
InitBuilder ==
    /\ pc = "schedules"
    /\ args = [fast |-> TRUE, fast_iter |-> <<>>]
    /\ params \in [noise_schedule : Schedules,
                   inference_noise_schedule : Schedules]
    /\ files = [step |-> <<1>>, default |-> <<>>]
    /\ dataset_test = << <<<<"a", "x.wav">>>> >>
    /\ fast_sampling = TRUE
    /\ T_OVERRIDE = <<Len(params.inference_noise_schedule)>>
    /\ loads = <<"weights-step.pt">>
    /\ weights = "weights-step.pt"
    /\ step = <<1>>
    /\ sample_path = [dir |-> "hyak_sample_fast", step |-> <<1>>,
                      fast_iter |-> T_OVERRIDE]
    /\ training_noise_schedule = <<>>
    /\ beta = <<>>
    /\ T = <<>>
    /\ s = 0
    /\ i = 0
    /\ n = 0
    /\ audio = NoAudio
    /\ target_std = 1
    /\ calls = <<>>
    /\ injections = <<>>
    /\ clamped = 0
    /\ outdir = {}
    /\ error = ""

NextBuilder ==
    \/ SetupSchedules
    \/ BuildStep
    \/ BuildDone
    \/ LoadExample
    \/ Finish
    \/ SamplerStep
    \/ Save

SpecBuilder == InitBuilder /\ [][NextBuilder]_vars


\* ================================================================== claims
\* the schedule builder has run to its end
Built ==
    \/ pc \in {"examples", "sample", "save", "done"}
    \/ pc = "crash" /\ error = "IndexError"

\* the sampler has ended for the example at hand, by its last iteration or
\* by an exception
SamplerEnded == pc = "save" \/ (pc = "crash" /\ error = "IndexError")

\* inference step k (0-based) has a training bracket
HasBracket(k) ==
    \E t \in 0..(Len(training_noise_schedule) - 2) :
        /\ QLe(At(talpha_cum, t + 1), At(alpha_cum, k))
        /\ QLe(At(alpha_cum, k), At(talpha_cum, t))

\* every inference alpha_cum lies in [talpha_cum[last], talpha_cum[0]]
InTrainingRange ==
    \A k \in 0..(Len(beta) - 1) :
        /\ QLe(At(talpha_cum, Len(talpha_cum) - 1), At(alpha_cum, k))
        /\ QLe(At(alpha_cum, k), At(talpha_cum, 0))

\* <<hi, hi - 1, ..., lo>>
Down(hi, lo) == [k \in 1..(hi - lo + 1) |-> hi - k + 1]

\* C1: when every inference alpha_cum lies within the training range, the
\* built T has len(inference_schedule) entries, for every training length,
\* length 1 included.
C1_TimeWarpLength ==
    (Built /\ InTrainingRange) => Len(T) = Len(beta)

\* C2: for a schedule of length L >= 1 the sampler visits n = L-1, ..., 0 in
\* that order, calls the denoiser once per n (L calls) and injects noise in
\* exactly the iterations with n > 0 (L-1 injections).
C2_SamplerVisits ==
    SamplerEnded =>
        /\ calls = Down(Len(beta) - 1, 0)
        /\ injections = Down(Len(beta) - 1, 1)

\* C3: with --fast the sampling loop uses the inference noise schedule and
\* runs as many denoising iterations per example as the fast_iter value of
\* the output directory's name.
C3_FastUsesInferenceSchedule ==
    (args.fast /\ pc = "save") =>
        /\ beta = params.inference_noise_schedule
        /\ <<Len(calls)>> = sample_path.fast_iter

\* C4 as stated: at the end of every sampler iteration the audio element
\* lies in [-1.0, 1.0], whatever the denoiser returned.
C4_ClampedAlways ==
    clamped > 0 => (IsFin(audio) /\ -Unit <= audio[2] /\ audio[2] <= Unit)

\* C4 as amended: at the end of every sampler iteration the audio element is
\* nan or lies in [-1.0, 1.0]; torch.clamp cuts +inf and -inf to the bounds
\* and propagates nan.
C4_ClampedUnlessNaN ==
    clamped > 0 =>
        \/ audio = NaN
        \/ IsFin(audio) /\ -Unit <= audio[2] /\ audio[2] <= Unit

\* the clamp has cut the last iteration's value to the lower bound after a
\* full run of at least two iterations
C4_Witness ==
    pc = "save" /\ clamped = Len(beta) /\ clamped >= 2 /\ audio = Fin(-Unit)

\* C5: when the inference schedule is the training schedule (length >= 2) the
\* first-match scan picks t = 0 with twiddle 0 for s = 0 and t = s-1 with
\* twiddle 1 for s >= 1, so that T[s] = s for every s.
C5_IdentityTimeWarp ==
    (Built /\ beta = training_noise_schedule /\ Len(beta) >= 2) =>
        /\ Len(T) = Len(beta)
        /\ \A k \in 0..(Len(beta) - 1) : At(T, k) = QInt(k)
        /\ pc = "examples" =>
              \A k \in 0..(Len(beta) - 1) :
                 /\ FirstBracket(k) = <<IF k = 0 THEN 0 ELSE k - 1>>
                 /\ twiddle(FirstBracket(k)[1], k) =
                        QInt(IF k = 0 THEN 0 ELSE 1)

\* a finished run over a training schedule of three steps used as the
\* inference schedule
C5_Witness ==
    pc = "done" /\ beta = training_noise_schedule /\ Len(T) = 3

\* C6: after a run over a filelist of N examples the output directory holds
\* N distinct files, each example's output under its own name and none
\* overwritten by a later example's.
C6_OneFilePerExample ==
    pc = "done" =>
        /\ Cardinality(outdir) = Len(dataset_test)
        /\ \A j \in 0..(Len(dataset_test) - 1) :
              LET path == At(At(dataset_test, j), 0)
              IN  <<path[Len(path)], j>> \in outdir

\* C7: a missing step-specific file leads to exactly one fallback load of
\* weights.pt, whose model and stored step are returned; if weights.pt is
\* missing too the failure propagates with no further attempt; if the
\* step-specific file exists the fallback is never attempted.
C7_RestoreFallback ==
    /\ pc \notin {"override", "restore"} => loads # <<>>
    /\ loads # <<>> =>
          IF files.step # <<>>
          THEN /\ loads = <<"weights-step.pt">>
               /\ weights = "weights-step.pt"
               /\ step = files.step
               /\ error # "FileNotFoundError"
          ELSE /\ loads = <<"weights-step.pt", "weights.pt">>
               /\ IF files.default # <<>>
                  THEN /\ weights = "weights.pt"
                       /\ step = files.default
                       /\ error # "FileNotFoundError"
                  ELSE /\ weights = "none"
                       /\ step = <<>>
                       /\ error = "FileNotFoundError"
                       /\ pc = "crash"

\* a run that restored the model from weights.pt has ended
C7_Witness ==
    pc = "done" /\ files.step = <<>> /\ weights = "weights.pt"

\* C8 as stated: every value of T lies in [0, len(training_schedule) - 1).
C8_HalfOpenRange ==
    \A k \in 1..Len(T) :
        /\ QLe(QInt(0), T[k])
        /\ QLt(T[k], QInt(Len(training_noise_schedule) - 1))

\* C8 as amended: every value of T lies in the closed range
\* [0, len(training_schedule) - 1].
C8_ClosedRange ==
    \A k \in 1..Len(T) :
        /\ QLe(QInt(0), T[k])
        /\ QLe(T[k], QInt(Len(training_noise_schedule) - 1))

\* T holds the upper end of the range and a value strictly inside it
C8_Witness ==
    /\ Built
    /\ \E k \in 1..Len(T) : T[k] = QInt(Len(training_noise_schedule) - 1)
    /\ \E k \in 1..Len(T) :
          QLt(QInt(0), T[k]) /\ QLt(T[k], QInt(1))

\* C9: an inference step without a training bracket raises nothing and
\* appends nothing, so len(T) is the number of steps that have a bracket;
\* the sampler's T[n] lookup then fails on its first iteration
\* (n = len(schedule) - 1), before any denoiser call.
C9_BracketMiss ==
    /\ pc = "build" =>
          /\ error = ""
          /\ Len(T) = Cardinality({k \in 0..(s - 1) : HasBracket(k)})
    /\ Built =>
          Len(T) = Cardinality({k \in 0..(Len(beta) - 1) : HasBracket(k)})
    /\ error = "IndexError" =>
          /\ Len(T) < Len(beta)
          /\ n = Len(beta) - 1
          /\ calls = <<>>
    /\ (Built /\ Len(T) < Len(beta)) =>
          /\ calls = <<>>
          /\ pc \in {"examples", "sample", "crash"}
          /\ pc = "examples" => i = 0

\* the sampler has failed on a T that lacks some but not all of the steps
C9_Witness ==
    error = "IndexError" /\ Len(T) >= 1 /\ Len(T) < Len(beta)

\* C10: T is non-decreasing, also when steps were dropped and when an
\* alpha_cum falls on a training boundary.
C10_NonDecreasing ==
    \A k \in 1..(Len(T) - 1) : QLe(T[k], T[k + 1])

\* T has a step on a training boundary followed by a step inside a bracket,
\* and a step was dropped
C10_Witness ==
    /\ Built
    /\ Len(T) >= 2
    /\ Len(T) < Len(beta)
    /\ T[1] = QInt(1)
    /\ QLt(T[1], T[2])

====
